---- MODULE Spec2Model ----
(***************************************************************************)
(* Model of the Express middleware of examples/mongo/app/middleware.js:    *)
(* init, authenticate, can(action, entity), processArticleParam,           *)
(* processRoleParam and processUserParam, run by the router as an ordered  *)
(* chain of stages over one request object (req.user, req.context, res).   *)
(* Every async stage is split at its await: the part before the await is   *)
(* one action, the continuation after it another.                          *)
(***************************************************************************)
EXTENDS Integers, Sequences, FiniteSets, TLC

\* ---------------------------------------------------------------- bounds
NumReqs == 2
MaxStages == 3

Reqs == 1..NumReqs

\* ---------------------------------------------------------- JS values
Undefined == [type |-> "undefined"]
Null == [type |-> "null"]
UserDoc(u) == [type |-> "User", username |-> u]
EntityDoc(model, i) == [type |-> model, id |-> i]
EmptyObject == [type |-> "object", props |-> << >>]

\* ---------------------------------------------------- request inputs
Urls == {"/", "/auth/login", "/auth/login/", "/articles/42"}
Tokens == {"none", "bad", "alice", "bob", "ghost"}
Ids == {41, 42}

\* ------------------------------------------------- storage collaborators
\* Users known to the store, and the permissions each one is granted.
Usernames == {"alice", "bob"}
Permissions(u) == IF u = "bob" THEN {"article.view", "article.edit"} ELSE {}
\* Ids for which Article / Role / User documents exist.
StoredIds == {42}

\* ------------------------------------------------------------- stages
Stage(n, a, e) == [name |-> n, action |-> a, entity |-> e]
CanPairs == {<<"view", "article">>, <<"edit", "article">>,
             <<"publish", "article">>, <<"edit", "widget">>}
ParamStages == {"processArticleParam", "processRoleParam", "processUserParam"}
Stages == {Stage("authenticate", "-", "-")}
          \cup {Stage(n, "-", "-") : n \in ParamStages}
          \cup {Stage("can", p[1], p[2]) : p \in CanPairs}
Pipelines == UNION {[1..n -> Stages] : n \in 0..MaxStages}

\* ------------------------------------------------------------ messages
MsgLogin == "Sorry :( Log in and try again."
MsgForbidden == "You are not authorized to perform this action."
MsgFailure == "Sorry :( Something bad happened."
MsgNoArticle == "The article does not exist."
MsgNoRole == "The role does not exist."
MsgNoUser == "The user does not exist."
Response(s, m) == [status |-> s, message |-> m]

VARIABLES
  url,        \* req.url
  token,      \* the authorization header of the request
  params,     \* req.params.id
  pipeline,   \* the stages registered for the request's route, in order
  idx,        \* position in the chain: 0 is init, Len(pipeline)+1 the handler
  pc,         \* "idle", "start", "awaitUser", "awaitPerms", "awaitEntity",
              \* "responded" or "handled"
  user,       \* req.user
  context,    \* req.context
  promises,   \* promises returned by asynchronous predicates, never awaited
  res,        \* the responses sent on res, in order
  log         \* history: what each stage did, in order

vars == <<url, token, params, pipeline, idx, pc, user, context, promises, res, log>>
inputs == <<url, token, params, pipeline>>

\* A history entry: what happened, in which stage, and (for a predicate
\* call) how the predicate answers and what it was handed.
EventArg(e, i, t, v, a) == [ev |-> e, at |-> i, type |-> t, value |-> v, arg |-> a]
EventOf(e, i, t, v) == EventArg(e, i, t, v, Undefined)
Event(e, i) == EventOf(e, i, "-", "-")

\* The stage the request is in (init is not part of the route's pipeline).
CurStage(r) == IF idx[r] >= 1 /\ idx[r] <= Len(pipeline[r])
               THEN pipeline[r][idx[r]]
               ELSE Stage(IF idx[r] = 0 THEN "init" ELSE "handler", "-", "-")

AtStart(r, n) == pc[r] = "start" /\ CurStage(r).name = n

\* ------------------------------------------------------ router (Express)
\* next(): the router moves the request to the following stage.
Continue(r, evs) ==
  /\ idx' = [idx EXCEPT ![r] = @ + 1]
  /\ pc' = [pc EXCEPT ![r] = "start"]
  /\ log' = [log EXCEPT ![r] = @ \o evs \o <<Event("next", idx[r])>>]
  /\ res' = res

\* res.status(s).json({message: m}): the response is sent and the stage
\* returns without calling next, so the router runs nothing more.
Terminate(r, evs, s, m) ==
  /\ pc' = [pc EXCEPT ![r] = "responded"]
  /\ res' = [res EXCEPT ![r] = Append(@, Response(s, m))]
  /\ log' = [log EXCEPT ![r] = @ \o evs \o <<Event("respond", idx[r])>>]
  /\ idx' = idx

\* A stage suspends at an await.
Suspend(r, evs, at) ==
  /\ pc' = [pc EXCEPT ![r] = at]
  /\ log' = [log EXCEPT ![r] = @ \o evs]
  /\ UNCHANGED <<idx, res>>

\* ---------------------------------------------------------------- init
\* Variant: one context object shared by the whole process; every init
\* empties it for all requests.
initSharedContext(r) ==
  /\ AtStart(r, "init")
  /\ context' = [q \in Reqs |-> EmptyObject]
  /\ Continue(r, << >>)
  /\ UNCHANGED <<inputs, user, promises>>

init(r) ==
  /\ AtStart(r, "init")
  /\ context' = [context EXCEPT ![r] = EmptyObject]
  /\ Continue(r, << >>)
  /\ UNCHANGED <<inputs, user, promises>>

\* -------------------------------------------------------- authenticate
\* Variant: the public paths matched as prefixes up to a trailing slash.
PublicUrlLoose(u) == u \in {"/", "/auth/login", "/auth/login/"}

\* The routes that need no authentication, compared with ===.
PublicUrl(u) == u = "/" \/ u = "/auth/login"

\* decodeAuthToken(req): the username the token names, or a throw.
decodeAuthToken(t) == IF t \in {"none", "bad"}
                      THEN [type |-> "throw"]
                      ELSE [type |-> "return", username |-> t]

\* User.findOne({username}) without orFail: null when nothing matches.
FindUser(u) == IF u \in Usernames THEN UserDoc(u) ELSE Null

\* Variant: the catch block answers 401 without returning, and next runs.
authenticateCatchFallThrough(r, evs) ==
  /\ idx' = [idx EXCEPT ![r] = @ + 1]
  /\ pc' = [pc EXCEPT ![r] = "start"]
  /\ res' = [res EXCEPT ![r] = Append(@, Response(401, MsgLogin))]
  /\ log' = [log EXCEPT ![r] = @ \o evs \o
                <<Event("respond", idx[r]), Event("next", idx[r])>>]

\* The catch block of authenticate.
authenticateCatch(r, evs) == Terminate(r, evs, 401, MsgLogin)

\* Variant: the token is decoded before the public routes are let through.
authenticateDecodeFirst(r) ==
  /\ AtStart(r, "authenticate")
  /\ IF decodeAuthToken(token[r]).type = "throw"
     THEN authenticateCatch(r, <<Event("decode", idx[r])>>)
     ELSE IF PublicUrl(url[r])
          THEN Continue(r, <<Event("decode", idx[r])>>)
          ELSE Suspend(r, <<Event("decode", idx[r]), Event("findUser", idx[r])>>,
                       "awaitUser")
  /\ UNCHANGED <<inputs, user, context, promises>>

authenticate(r) ==
  /\ AtStart(r, "authenticate")
  /\ IF PublicUrl(url[r])
     THEN Continue(r, << >>)
     ELSE IF decodeAuthToken(token[r]).type = "throw"
          THEN authenticateCatch(r, <<Event("decode", idx[r])>>)
          ELSE Suspend(r, <<Event("decode", idx[r]), Event("findUser", idx[r])>>,
                       "awaitUser")
  /\ UNCHANGED <<inputs, user, context, promises>>

\* The continuation after `await User.findOne({ username })`; the lookup
\* either rejects (storage fault) or resolves with the document or null.
authenticateResume(r) ==
  /\ pc[r] = "awaitUser"
  /\ \E rejected \in BOOLEAN :
       LET found == FindUser(decodeAuthToken(token[r]).username)
       IN  IF rejected
           THEN /\ authenticateCatch(r, <<EventOf("findUserDone", idx[r], "result", "error")>>)
                /\ user' = user
           ELSE /\ user' = [user EXCEPT ![r] = found]
                /\ Continue(r, <<EventOf("findUserDone", idx[r], "result",
                                         IF found = Null THEN "null" ELSE "found")>>)
  /\ UNCHANGED <<inputs, context, promises>>

\* ------------------------------------------------- policies and engine
\* The registry: entity name -> action name -> predicate.
policies == [article |-> [view |-> "viewArticle", edit |-> "editArticle"]]

\* Variant: the predicate is handed a request whose context is a fresh
\* empty object instead of the one the stages filled.
ReqObjectFreshContext(r) == [url |-> url[r], params |-> params[r],
                             user |-> user[r], context |-> EmptyObject]

\* The object a predicate receives as its second argument.
ReqObject(r) == [url |-> url[r], params |-> params[r],
                 user |-> user[r], context |-> context[r]]

Bool(b) == IF b THEN "true" ELSE "false"

\* The registered predicates.  Both read the resolved article from
\* req.context, which faults when no article was resolved.  viewArticle
\* is synchronous (returns a boolean or throws), editArticle is an async
\* function (always returns a promise, fulfilled or rejected).
Predicate(name, userPermissions, req) ==
  LET hasArticle == /\ req.context.type = "object"
                    /\ "article" \in DOMAIN req.context.props
  IN  IF name = "viewArticle"
      THEN IF hasArticle
           THEN [type |-> "boolean", value |-> Bool("article.view" \in userPermissions)]
           ELSE [type |-> "throw", value |-> "TypeError"]
      ELSE [type |-> "promise",
            value |-> IF hasArticle
                      THEN Bool("article.edit" \in userPermissions)
                      ELSE "rejected"]

\* authorize(action, entity, userPermissions, policies, req)
authorize(action, entity, userPermissions, pol, req) ==
  IF entity \notin DOMAIN pol
  THEN [type |-> "throw", value |-> "PolicyNotFound"]
  ELSE IF action \notin DOMAIN pol[entity]
       THEN [type |-> "throw", value |-> "ActionNotFound"]
       ELSE Predicate(pol[entity][action], userPermissions, req)

Registered(action, entity) ==
  entity \in DOMAIN policies /\ action \in DOMAIN policies[entity]

\* JavaScript truthiness of what authorize returned: a promise is an
\* object, hence truthy whatever it settles to.
Truthy(v) == v.type = "promise" \/ (v.type = "boolean" /\ v.value = "true")

\* ----------------------------------------------------------------- can
\* Variant: the catch block answers 403 like a denial.
canCatchForbidden(r, evs) == Terminate(r, evs, 403, MsgForbidden)

\* The catch block of the stage built by can.
canCatch(r, evs) == Terminate(r, evs, 500, MsgFailure)

\* Variant: the 403 is sent without returning, and next runs as well.
canDeniedFallThrough(r, evs) ==
  /\ idx' = [idx EXCEPT ![r] = @ + 1]
  /\ pc' = [pc EXCEPT ![r] = "start"]
  /\ res' = [res EXCEPT ![r] = Append(@, Response(403, MsgForbidden))]
  /\ log' = [log EXCEPT ![r] = @ \o evs \o
                <<Event("respond", idx[r]), Event("next", idx[r])>>]

\* The branch taken when authorize returned a falsy value.
canDenied(r, evs) == Terminate(r, evs, 403, MsgForbidden)

\* Variant: a request without req.user is refused like a denial.
canNoUserDenied(r) ==
  /\ AtStart(r, "can")
  /\ IF user[r] \in {Undefined, Null}
     THEN canDenied(r, << >>)
     ELSE Suspend(r, <<Event("permissions", idx[r])>>, "awaitPerms")
  /\ UNCHANGED <<inputs, user, context, promises>>

\* Variant: the stage looks the pair up in the registry before touching
\* the permission source.
canRegistryFirst(r) ==
  /\ AtStart(r, "can")
  /\ IF ~Registered(CurStage(r).action, CurStage(r).entity)
     THEN canCatch(r, <<Event("registry", idx[r])>>)
     ELSE IF user[r] \in {Undefined, Null}
          THEN canCatch(r, << >>)
          ELSE Suspend(r, <<Event("permissions", idx[r])>>, "awaitPerms")
  /\ UNCHANGED <<inputs, user, context, promises>>

\* Up to `await req.user.permissions`: reading .permissions of an absent
\* req.user throws a TypeError inside the try.
can(r) ==
  /\ AtStart(r, "can")
  /\ IF user[r] \in {Undefined, Null}
     THEN canCatch(r, << >>)
     ELSE Suspend(r, <<Event("permissions", idx[r])>>, "awaitPerms")
  /\ UNCHANGED <<inputs, user, context, promises>>

\* What the stage does with the permission set once it has it.
canDecide(r, userPermissions) ==
  LET st == CurStage(r)
      result == authorize(st.action, st.entity, userPermissions, policies, ReqObject(r))
      evs == <<EventOf("permissionsDone", idx[r], "result", "ok"),
               Event("registry", idx[r])>> \o
             (IF Registered(st.action, st.entity)
              THEN <<EventArg("predicate", idx[r], result.type, result.value,
                              ReqObject(r))>>
              ELSE << >>)
  IN  /\ IF result.type = "throw"
         THEN canCatch(r, evs)
         ELSE IF ~Truthy(result)
              THEN canDenied(r, evs)
              ELSE Continue(r, evs)
      /\ promises' = [promises EXCEPT ![r] =
                        IF result.type = "promise"
                        THEN Append(@, [state |-> "pending", value |-> result.value])
                        ELSE @]

\* The continuation after `await req.user.permissions`; the permission
\* source either rejects or yields the caller's permission set.
canResume(r) ==
  /\ pc[r] = "awaitPerms"
  /\ \E rejected \in BOOLEAN :
       IF rejected
       THEN /\ canCatch(r, <<EventOf("permissionsDone", idx[r], "result", "error")>>)
            /\ promises' = promises
       ELSE canDecide(r, Permissions(user[r].username))
  /\ UNCHANGED <<inputs, user, context>>

\* A promise returned by an asynchronous predicate settles.  Nothing
\* awaits it: a rejection is an unhandled rejection.
settle(r) ==
  /\ \E i \in 1..Len(promises[r]) :
       /\ promises[r][i].state = "pending"
       /\ promises' = [promises EXCEPT ![r][i].state = "settled"]
       /\ log' = [log EXCEPT ![r] =
                    Append(@, EventOf("settled", idx[r], "promise", promises[r][i].value))]
  /\ UNCHANGED <<inputs, idx, pc, user, context, res>>

\* --------------------------------------------------- resolution stages
\* Variant: processRoleParam assigns req.context.user.
ContextKeyCopied(n) == CASE n = "processArticleParam" -> "article"
                         [] n = "processRoleParam" -> "user"
                         [] n = "processUserParam" -> "user"

\* The key of req.context each stage assigns.
ContextKey(n) == CASE n = "processArticleParam" -> "article"
                   [] n = "processRoleParam" -> "role"
                   [] n = "processUserParam" -> "user"

ModelOf(n) == CASE n = "processArticleParam" -> "Article"
                [] n = "processRoleParam" -> "Role"
                [] n = "processUserParam" -> "User"

NotFoundMessage(n) == CASE n = "processArticleParam" -> MsgNoArticle
                        [] n = "processRoleParam" -> MsgNoRole
                        [] n = "processUserParam" -> MsgNoUser

\* Variant: the query without orFail resolves with null.
FindByIdNoFail(model, i) == IF i \in StoredIds THEN EntityDoc(model, i) ELSE Null

\* Model.findOne({ _id: id }).orFail(): the document, or a throw when
\* nothing matches.
FindByIdOrFail(model, i) == IF i \in StoredIds
                            THEN EntityDoc(model, i)
                            ELSE [type |-> "throw"]

\* Up to the await of the lookup.
paramStart(r, n) ==
  /\ AtStart(r, n)
  /\ Suspend(r, <<Event("findById", idx[r])>>, "awaitEntity")
  /\ UNCHANGED <<inputs, user, context, promises>>

\* Variant: processUserParam assigns the document to req.user instead of
\* req.context.user.
paramResumeOnRequest(r, n) ==
  /\ pc[r] = "awaitEntity"
  /\ CurStage(r).name = n
  /\ \E rejected \in BOOLEAN :
       LET found == FindByIdOrFail(ModelOf(n), params[r])
       IN  IF rejected \/ found.type = "throw"
           THEN /\ Terminate(r, <<EventOf("findByIdDone", idx[r], "result",
                                           IF rejected THEN "error" ELSE "absent")>>,
                             404, NotFoundMessage(n))
                /\ UNCHANGED <<context, user>>
           ELSE /\ IF n = "processUserParam"
                   THEN /\ user' = [user EXCEPT ![r] = found]
                        /\ context' = context
                   ELSE /\ user' = user
                        /\ context' = [context EXCEPT ![r].props =
                                         [k \in DOMAIN @ \cup {ContextKey(n)} |->
                                            IF k = ContextKey(n) THEN found ELSE @[k]]]
                /\ Continue(r, <<EventOf("findByIdDone", idx[r], "result", "found"),
                                 EventOf("write", idx[r], "key", ContextKey(n))>>)
  /\ UNCHANGED <<inputs, promises>>

\* The continuation after the await: assign the document and call next,
\* or answer 404 from the catch block with nothing assigned.
paramResume(r, n) ==
  /\ pc[r] = "awaitEntity"
  /\ CurStage(r).name = n
  /\ \E rejected \in BOOLEAN :
       LET found == FindByIdOrFail(ModelOf(n), params[r])
       IN  IF rejected \/ found.type = "throw"
           THEN /\ Terminate(r, <<EventOf("findByIdDone", idx[r], "result",
                                           IF rejected THEN "error" ELSE "absent")>>,
                             404, NotFoundMessage(n))
                /\ context' = context
           ELSE /\ context' = [context EXCEPT ![r].props =
                                 [k \in DOMAIN @ \cup {ContextKey(n)} |->
                                    IF k = ContextKey(n) THEN found ELSE @[k]]]
                /\ Continue(r, <<EventOf("findByIdDone", idx[r], "result", "found"),
                                 EventOf("write", idx[r], "key", ContextKey(n))>>)
  /\ UNCHANGED <<inputs, user, promises>>

processArticleParam(r) == paramStart(r, "processArticleParam")
processArticleParamResume(r) == paramResume(r, "processArticleParam")
processRoleParam(r) == paramStart(r, "processRoleParam")
processRoleParamResume(r) == paramResume(r, "processRoleParam")
processUserParam(r) == paramStart(r, "processUserParam")
processUserParamResume(r) == paramResume(r, "processUserParam")

\* ------------------------------------------------------- route handler
\* Every stage called next: the route's handler answers the request.
handler(r) ==
  /\ AtStart(r, "handler")
  /\ pc' = [pc EXCEPT ![r] = "handled"]
  /\ res' = [res EXCEPT ![r] = Append(@, Response(200, "OK"))]
  /\ log' = [log EXCEPT ![r] = Append(@, Event("handler", idx[r]))]
  /\ UNCHANGED <<inputs, idx, user, context, promises>>

\* --------------------------------------------------------- the system
\* A request arrives on each of the requests in `active`: any url, token,
\* id parameter and route; nothing has run on it yet.
InitFrom(active, someUrls, someTokens, someIds, somePipelines) ==
  /\ \E f \in [active -> someUrls] :
       url = [r \in Reqs |-> IF r \in active THEN f[r] ELSE "/"]
  /\ \E f \in [active -> someTokens] :
       token = [r \in Reqs |-> IF r \in active THEN f[r] ELSE "none"]
  /\ \E f \in [active -> someIds] :
       params = [r \in Reqs |-> IF r \in active THEN f[r] ELSE 41]
  /\ \E f \in [active -> somePipelines] :
       pipeline = [r \in Reqs |-> IF r \in active THEN f[r] ELSE << >>]
  /\ idx = [r \in Reqs |-> 0]
  /\ pc = [r \in Reqs |-> IF r \in active THEN "start" ELSE "idle"]
  /\ user = [r \in Reqs |-> Undefined]
  /\ context = [r \in Reqs |-> Undefined]
  /\ promises = [r \in Reqs |-> << >>]
  /\ res = [r \in Reqs |-> << >>]
  /\ log = [r \in Reqs |-> << >>]

InitWith(active) == InitFrom(active, Urls, Tokens, Ids, Pipelines)

Init == InitWith({1})

Next ==
  \E r \in Reqs :
    \/ init(r)
    \/ authenticate(r)
    \/ authenticateResume(r)
    \/ can(r)
    \/ canResume(r)
    \/ settle(r)
    \/ processArticleParam(r)
    \/ processArticleParamResume(r)
    \/ processRoleParam(r)
    \/ processRoleParamResume(r)
    \/ processUserParam(r)
    \/ processUserParamResume(r)
    \/ handler(r)

Spec == Init /\ [][Next]_vars

\* Two requests in flight at once, their stages interleaved at every
\* await, each on one of three routes of the application.
ConcRoutes ==
  {<<Stage("authenticate", "-", "-"), Stage("processArticleParam", "-", "-"),
     Stage("can", "edit", "article")>>,
   <<Stage("authenticate", "-", "-"), Stage("processArticleParam", "-", "-"),
     Stage("can", "view", "article")>>,
   <<Stage("authenticate", "-", "-"), Stage("processUserParam", "-", "-"),
     Stage("processRoleParam", "-", "-")>>}
ConcUrls == {"/", "/articles/42"}
ConcTokens == {"none", "alice", "bob"}

InitConc == InitFrom({1, 2}, ConcUrls, ConcTokens, Ids, ConcRoutes)

SpecConc == InitConc /\ [][Next]_vars

\* =============================================================== claims
\* Reading the history of a request.
HasEvent(r, e, i) ==
  \E k \in 1..Len(log[r]) : log[r][k].ev = e /\ log[r][k].at = i
HasResult(r, e, i, v) ==
  \E k \in 1..Len(log[r]) :
    log[r][k].ev = e /\ log[r][k].at = i /\ log[r][k].value = v
CalledNext(r, i) == HasEvent(r, "next", i)
RespondedAt(r, i) == HasEvent(r, "respond", i)
Ended(r, i) == CalledNext(r, i) \/ RespondedAt(r, i)
Continued(r, i) == CalledNext(r, i) /\ ~RespondedAt(r, i)
AnsweredWith(r, i, s, m) ==
  RespondedAt(r, i) /\ ~CalledNext(r, i) /\ res[r] = <<Response(s, m)>>
StageIndexes(r) == 1..Len(pipeline[r])
IsCan(r, i) == pipeline[r][i].name = "can"
IsRegistered(r, i) == Registered(pipeline[r][i].action, pipeline[r][i].entity)
\* How the predicate called by stage i answered: "true", "false", a fault
\* ("TypeError", "rejected"), or "none" when no predicate was called.
PredicateAnswer(r, i) ==
  LET ks == {k \in 1..Len(log[r]) : log[r][k].ev = "predicate" /\ log[r][k].at = i}
  IN  IF ks = {} THEN "none" ELSE log[r][CHOOSE k \in ks : TRUE].value
PredicateType(r, i) ==
  LET ks == {k \in 1..Len(log[r]) : log[r][k].ev = "predicate" /\ log[r][k].at = i}
  IN  IF ks = {} THEN "none" ELSE log[r][CHOOSE k \in ks : TRUE].type

\* C1: a can stage that ran with a caller attached and a registered
\* (entity, action) continues iff its predicate answers true, answers 403
\* "not authorized" iff the predicate answers false, and in those two
\* cases emits nothing else.
C1_DecisionFollowsPredicate ==
  \A r \in Reqs : \A i \in StageIndexes(r) :
    (IsCan(r, i) /\ IsRegistered(r, i) /\ HasEvent(r, "permissions", i) /\ Ended(r, i))
    => /\ Continued(r, i) <=> PredicateAnswer(r, i) = "true"
       /\ AnsweredWith(r, i, 403, MsgForbidden) <=> PredicateAnswer(r, i) = "false"
       /\ PredicateAnswer(r, i) \in {"true", "false"}
            => (Continued(r, i) \/ AnsweredWith(r, i, 403, MsgForbidden))

\* C2: a can stage whose (entity, action) is not in the registry (entity
\* missing, or action missing) always answers 500 with the generic failure
\* message: it never answers 403 and never continues.
C2_UnregisteredIsServerError ==
  \A r \in Reqs : \A i \in StageIndexes(r) :
    (IsCan(r, i) /\ ~IsRegistered(r, i) /\ Ended(r, i))
    => AnsweredWith(r, i, 500, MsgFailure)

\* The registry was consulted for article.publish, which has no record.
C2_Witness ==
  \E r \in Reqs : \E i \in StageIndexes(r) :
    /\ pipeline[r][i] = Stage("can", "publish", "article")
    /\ HasEvent(r, "registry", i)
    /\ AnsweredWith(r, i, 500, MsgFailure)

\* C3: on a non-public route every failure of token decoding or caller
\* lookup, "caller not found" included, ends authenticate with 401 and the
\* log-in message, never with next.
C3_AuthFailureIs401 ==
  \A r \in Reqs : \A i \in StageIndexes(r) :
    (/\ pipeline[r][i].name = "authenticate"
     /\ url[r] \notin {"/", "/auth/login"}
     /\ Ended(r, i)
     /\ \/ token[r] \notin Usernames
        \/ HasResult(r, "findUserDone", i, "error"))
    => AnsweredWith(r, i, 401, MsgLogin)

\* C4: authenticate bypasses (continues without decoding a token or
\* looking a caller up) iff the url is exactly "/" or "/auth/login"; on
\* any other url a request whose token does not decode is answered 401
\* and stays in the authentication stage.
Bypassed(r, i) ==
  Continued(r, i) /\ ~HasEvent(r, "decode", i) /\ ~HasEvent(r, "findUser", i)

C4_BypassOnlyExactPublicPaths ==
  \A r \in Reqs : \A i \in StageIndexes(r) :
    (pipeline[r][i].name = "authenticate" /\ Ended(r, i))
    => /\ Bypassed(r, i) <=> url[r] \in {"/", "/auth/login"}
       /\ (url[r] \notin {"/", "/auth/login"} /\ token[r] \in {"none", "bad"})
            => /\ AnsweredWith(r, i, 401, MsgLogin)
               /\ idx[r] = i /\ pc[r] = "responded"

\* A request for "/auth/login/" (not an exact public path) without a token
\* was refused with stages still ahead of it.
C4_Witness ==
  \E r \in Reqs : \E i \in StageIndexes(r) :
    /\ pipeline[r][i].name = "authenticate"
    /\ url[r] = "/auth/login/" /\ token[r] = "none"
    /\ i < Len(pipeline[r])
    /\ AnsweredWith(r, i, 401, MsgLogin)

\* C5: when the lookup of a resolution stage finds nothing or fails, the
\* stage answers 404 with its entity's message, does not call next, and
\* leaves req.context exactly as it was.
NotFoundText(n) == CASE n = "processArticleParam" -> "The article does not exist."
                     [] n = "processRoleParam" -> "The role does not exist."
                     [] n = "processUserParam" -> "The user does not exist."
                     [] OTHER -> "?"

C5_Step ==
  \A r \in Reqs :
    (/\ pc[r] = "awaitEntity" /\ pc'[r] # "awaitEntity"
     /\ \/ params[r] \notin StoredIds
        \/ HasResult(r, "findByIdDone", idx[r], "error")')
    => /\ pc'[r] = "responded"
       /\ idx'[r] = idx[r]
       /\ res'[r] = Append(res[r], Response(404, NotFoundText(CurStage(r).name)))
       /\ ~CalledNext(r, idx[r])'
       /\ context'[r] = context[r]

C5_FailedLookupIs404 == [][C5_Step]_vars

\* processUserParam found no user: the answer is 404 and the context
\* holds no "user".
C5_Witness ==
  \E r \in Reqs : \E i \in StageIndexes(r) :
    /\ pipeline[r][i].name = "processUserParam"
    /\ HasResult(r, "findByIdDone", i, "absent")
    /\ AnsweredWith(r, i, 404, "The user does not exist.")
    /\ "user" \notin DOMAIN context[r].props

\* C6: within a request the stages run in registration order, each only
\* after the one before it called next; once a stage has answered, no
\* stage and no collaborator call follows and the answer is the only one.
\* (A predicate promise settling is not a call the pipeline starts.)
StageOfEvent(e) ==
  CASE e \in {"decode", "findUser", "findUserDone"} -> {"authenticate"}
    [] e \in {"permissions", "permissionsDone", "registry", "predicate"} -> {"can"}
    [] e \in {"findById", "findByIdDone", "write"} -> ParamStages
    [] e = "handler" -> {"handler"}
    [] OTHER -> {"init", "authenticate", "can"} \cup ParamStages

NameAt(r, i) == IF i \in StageIndexes(r) THEN pipeline[r][i].name
                ELSE IF i = 0 THEN "init" ELSE "handler"

C6_OrderAndFinality ==
  \A r \in Reqs :
    /\ Len(res[r]) <= 1
    /\ pc[r] = "responded" => Len(res[r]) = 1
    /\ \A k \in 1..Len(log[r]) :
         log[r][k].ev # "settled" =>
           /\ NameAt(r, log[r][k].at) \in StageOfEvent(log[r][k].ev)
           /\ log[r][k].at > 0 =>
                \E j \in 1..(k-1) : log[r][j] = Event("next", log[r][k].at - 1)
           /\ \A j \in 1..(k-1) :
                /\ log[r][j].ev # "settled" => log[r][j].at <= log[r][k].at
                /\ log[r][j].ev # "respond"
                /\ log[r][j].ev = "next" => log[r][j].at < log[r][k].at

\* A stage in the middle of the route answered: one ran before it, one
\* registered after it never ran.
C6_Witness ==
  \E r \in Reqs :
    /\ pc[r] = "responded" /\ idx[r] = 2 /\ Len(pipeline[r]) = 3
    /\ Len(res[r]) = 1

\* C7: the decision follows the predicate also when it is asynchronous:
\* completing with false, the can stage answers 403 and does not continue;
\* completing with true, it continues.
C7_AsyncPredicateDecides ==
  \A r \in Reqs : \A i \in StageIndexes(r) :
    (IsCan(r, i) /\ PredicateType(r, i) = "promise" /\ Ended(r, i))
    => /\ PredicateAnswer(r, i) = "false" => AnsweredWith(r, i, 403, MsgForbidden)
       /\ PredicateAnswer(r, i) = "true" => Continued(r, i)

\* C8 as stated: for an (entity, action) without a record the can stage
\* reaches its 500 without having read req.user.permissions and without
\* evaluating a predicate.
C8_RegistryBeforePermissions ==
  \A r \in Reqs : \A i \in StageIndexes(r) :
    (IsCan(r, i) /\ ~IsRegistered(r, i) /\ RespondedAt(r, i))
    => /\ ~HasEvent(r, "permissions", i)
       /\ PredicateAnswer(r, i) = "none"

\* C8 amended: for an (entity, action) without a record the can stage
\* evaluates no predicate, but the permission source comes first: with a
\* caller attached the stage reads and awaits req.user.permissions before
\* it answers, and the registry is consulted only after the permission
\* set was obtained.
C8_PermissionsBeforeRegistry ==
  \A r \in Reqs : \A i \in StageIndexes(r) :
    (IsCan(r, i) /\ ~IsRegistered(r, i))
    => /\ PredicateAnswer(r, i) = "none"
       /\ (RespondedAt(r, i) /\ user[r] \notin {Undefined, Null})
            => HasEvent(r, "permissions", i)
       /\ \A k \in 1..Len(log[r]) :
            log[r][k] = Event("registry", i) =>
              \E j \in 1..(k-1) :
                log[r][j] = EventOf("permissionsDone", i, "result", "ok")

\* The permission set was obtained, then widget.edit was not found.
C8_Witness ==
  \E r \in Reqs : \E i \in StageIndexes(r) :
    /\ pipeline[r][i] = Stage("can", "edit", "widget")
    /\ HasResult(r, "permissionsDone", i, "ok")
    /\ HasEvent(r, "registry", i)
    /\ AnsweredWith(r, i, 500, MsgFailure)

\* C9: no error of a collaborator call escapes its stage: decode and user
\* lookup errors become 401, permission, registry and predicate errors
\* become 500, entity lookup errors become 404, and each stage answers
\* only with its own statuses.
OwnStatuses(n) == CASE n = "authenticate" -> {401}
                    [] n = "can" -> {403, 500}
                    [] n \in ParamStages -> {404}
                    [] OTHER -> {}

C9_NoErrorEscapes ==
  \A r \in Reqs :
    /\ \A k \in 1..Len(log[r]) :
         ~(log[r][k].ev = "settled" /\ log[r][k].value = "rejected")
    /\ \A i \in StageIndexes(r) :
         Ended(r, i) =>
           /\ ( \/ (HasEvent(r, "decode", i) /\ token[r] \in {"none", "bad"})
                \/ HasResult(r, "findUserDone", i, "error") )
                => AnsweredWith(r, i, 401, MsgLogin)
           /\ ( \/ HasResult(r, "permissionsDone", i, "error")
                \/ (HasEvent(r, "registry", i) /\ ~IsRegistered(r, i))
                \/ PredicateAnswer(r, i) \in {"TypeError", "rejected"} )
                => AnsweredWith(r, i, 500, MsgFailure)
           /\ HasResult(r, "findByIdDone", i, "error")
                => AnsweredWith(r, i, 404, NotFoundText(pipeline[r][i].name))
           /\ RespondedAt(r, i)
                => \A q \in 1..Len(res[r]) :
                     res[r][q].status \in OwnStatuses(pipeline[r][i].name)

\* C10: after init created the context empty, its set of keys only grows,
\* no key is written by two different stages, and each resolution stage
\* writes only its own key (article, role, user).
OwnKey(n) == CASE n = "processArticleParam" -> "article"
               [] n = "processRoleParam" -> "role"
               [] n = "processUserParam" -> "user"
               [] OTHER -> "?"

Writes(r) == {k \in 1..Len(log[r]) : log[r][k].ev = "write"}

C10_Writers ==
  \A r \in Reqs :
    context[r].type = "object" =>
      /\ DOMAIN context[r].props = {log[r][k].value : k \in Writes(r)}
      /\ \A k \in Writes(r) :
           /\ log[r][k].value = OwnKey(NameAt(r, log[r][k].at))
           /\ \A j \in Writes(r) :
                log[r][j].value = log[r][k].value
                  => NameAt(r, log[r][j].at) = NameAt(r, log[r][k].at)

C10_Step ==
  \A r \in Reqs :
    context[r].type = "object" =>
      /\ context'[r].type = "object"
      /\ DOMAIN context[r].props \subseteq DOMAIN context'[r].props
      /\ \A k \in DOMAIN context[r].props :
           context'[r].props[k] \notin {Undefined, Null}

C10_ContextOnlyGrows == [](C10_Writers) /\ [][C10_Step]_vars

\* All three resolution stages ran and each left its key.
C10_Witness ==
  \E r \in Reqs :
    /\ context[r].type = "object"
    /\ DOMAIN context[r].props = {"article", "role", "user"}
    /\ Cardinality(Writes(r)) = 3

\* The resolution stage that just called next left its document under its
\* own key of req.context.
ContextOwnKeyWritten(r) ==
  LET n == NameAt(r, idx[r] - 1)
  IN  n \in ParamStages =>
        /\ OwnKey(n) \in DOMAIN context[r].props
        /\ context[r].props[OwnKey(n)].type \notin {"undefined", "null"}

\* C11: req.user is absent until authenticate succeeds, is written only by
\* authenticate, and once written is never changed by a later stage; in
\* particular processUserParam writes req.context.user and leaves req.user
\* alone.
C11_WrittenByAuthenticate ==
  \A r \in Reqs :
    user[r] # Undefined =>
      \E i \in StageIndexes(r) :
        /\ pipeline[r][i].name = "authenticate"
        /\ HasEvent(r, "findUserDone", i)
        /\ CalledNext(r, i)

C11_Step ==
  \A r \in Reqs :
    /\ user[r] # Undefined => user'[r] = user[r]
    /\ user'[r] # user[r] =>
         /\ pc[r] = "awaitUser"
         /\ CurStage(r).name = "authenticate"
         /\ \E k \in 1..Len(log'[r]) : log'[r][k] = Event("next", idx[r])
    /\ (pc[r] = "awaitEntity" /\ pc'[r] = "start")
         => /\ user'[r] = user[r]
            /\ ContextOwnKeyWritten(r)'

C11_CallerIdentityLifecycle ==
  [](C11_WrittenByAuthenticate) /\ [][C11_Step]_vars

\* The caller alice was attached, then processUserParam resolved user 42
\* into req.context.user: the two are different values.
C11_Witness ==
  \E r \in Reqs : \E i \in StageIndexes(r) :
    /\ pipeline[r][i].name = "processUserParam"
    /\ Continued(r, i)
    /\ user[r] = UserDoc("alice")
    /\ "user" \in DOMAIN context[r].props
    /\ context[r].props["user"] = EntityDoc("User", 42)

\* C12: with several requests interleaved at every await, each request's
\* req.context and req.user hold only values resolved for that request,
\* every step touches the state of one request only, and the final
\* outcome of each request is the one it has when processed alone (with
\* the same collaborator results).
\* The status a request ends with when its stages run alone, one after
\* the other, from stage i with caller u and context keys c; collaborator
\* faults are the ones recorded for the request.
RECURSIVE AloneStatus(_, _, _, _)
AloneStatus(r, i, u, c) ==
  IF i > Len(pipeline[r]) THEN 200
  ELSE
    LET st == pipeline[r][i]
    IN  CASE st.name = "authenticate" ->
               IF url[r] \in {"/", "/auth/login"} THEN AloneStatus(r, i + 1, u, c)
               ELSE IF token[r] \in {"none", "bad"}
                       \/ HasResult(r, "findUserDone", i, "error") THEN 401
               ELSE AloneStatus(r, i + 1,
                                IF token[r] \in Usernames THEN UserDoc(token[r]) ELSE Null, c)
          [] st.name = "can" ->
               IF u \in {Undefined, Null}
                  \/ HasResult(r, "permissionsDone", i, "error")
                  \/ st.entity # "article"
                  \/ st.action \notin {"view", "edit"} THEN 500
               ELSE IF st.action = "edit" THEN AloneStatus(r, i + 1, u, c)
               ELSE IF "article" \notin c THEN 500
               ELSE IF u.username = "bob" THEN AloneStatus(r, i + 1, u, c)
               ELSE 403
          [] OTHER ->
               IF params[r] \notin StoredIds
                  \/ HasResult(r, "findByIdDone", i, "error") THEN 404
               ELSE AloneStatus(r, i + 1, u, c \cup {OwnKey(st.name)})

OwnModel(k) == CASE k = "article" -> "Article"
                 [] k = "role" -> "Role"
                 [] k = "user" -> "User"
                 [] OTHER -> "?"

C12_OwnValues ==
  \A r \in Reqs :
    /\ user[r] \in {Undefined,
                    IF token[r] \in Usernames THEN UserDoc(token[r]) ELSE Null}
    /\ context[r].type = "object" =>
         \A k \in DOMAIN context[r].props :
           context[r].props[k] = EntityDoc(OwnModel(k), params[r])
    /\ pc[r] \in {"responded", "handled"} =>
         /\ Len(res[r]) = 1
         /\ res[r][1].status = AloneStatus(r, 1, Undefined, {})

OfRequest(r) ==
  <<url[r], token[r], params[r], pipeline[r], idx[r], pc[r], user[r],
    context[r], promises[r], res[r], log[r]>>

C12_Step ==
  \E r \in Reqs : \A q \in Reqs \ {r} : OfRequest(q)' = OfRequest(q)

C12_RequestsIsolated == [](C12_OwnValues) /\ [][C12_Step]_vars

\* Both requests are suspended at an await at the same time, request 1
\* in its can stage with article 42 resolved for alice, request 2 in a
\* lookup for id 41 on behalf of bob.
C12_Witness ==
  /\ pc[1] = "awaitPerms" /\ pc[2] = "awaitEntity"
  /\ user[1] = UserDoc("alice") /\ user[2] = UserDoc("bob")
  /\ params[1] = 42 /\ params[2] = 41
  /\ "article" \in DOMAIN context[1].props
  /\ context[2].props = << >>

\* The keys resolved into req.context before history entry k.
KeysBefore(r, k) == {log[r][j].value : j \in {w \in Writes(r) : w < k}}
PredicateCalls(r) == {k \in 1..Len(log[r]) : log[r][k].ev = "predicate"}

\* C13 as stated: what the can stage hands to the engine as the optional
\* argument is the request context itself, so the predicate's second
\* argument is the mapping with exactly the keys resolved earlier.
C13_ArgumentIsContext ==
  \A r \in Reqs : \A k \in PredicateCalls(r) :
    log[r][k].arg = [type |-> "object",
                     props |-> [key \in KeysBefore(r, k) |-> context[r].props[key]]]

\* C13 amended: what the can stage hands to the engine is the request
\* object req; the current context is its property req.context, which
\* holds exactly the keys resolved earlier in the same request, next to
\* req.user, req.params and req.url.
C13_ArgumentIsRequest ==
  \A r \in Reqs : \A k \in PredicateCalls(r) :
    LET a == log[r][k].arg
    IN  /\ DOMAIN a = {"url", "params", "user", "context"}
        /\ a.url = url[r] /\ a.params = params[r] /\ a.user = user[r]
        /\ a.context.type = "object"
        /\ DOMAIN a.context.props = KeysBefore(r, k)
        /\ \A key \in KeysBefore(r, k) :
             a.context.props[key] = context[r].props[key]

\* A context-aware predicate was called with the article resolved by
\* processArticleParam under req.context.article, and answered true.
C13_Witness ==
  \E r \in Reqs : \E k \in PredicateCalls(r) :
    /\ log[r][k].value = "true"
    /\ "article" \in DOMAIN log[r][k].arg.context.props
    /\ log[r][k].arg.context.props["article"] = EntityDoc("Article", 42)

\* C14: a stage that continues has completed its effects first: a
\* resolution stage calls next only after its lookup completed and a
\* present entity is stored under its key, authenticate on a non-public
\* route only after the caller lookup completed and a present caller is
\* attached; every stage before the current one has called next.
EventBefore(r, e, v, i) ==
  \E k \in 1..Len(log[r]) : \E j \in 1..(k-1) :
    /\ log[r][k] = Event("next", i)
    /\ log[r][j].ev = e /\ log[r][j].at = i /\ log[r][j].value = v

C14_EffectsCompleteBeforeNext ==
  \A r \in Reqs :
    /\ \A i \in 0..(idx[r] - 1) : Continued(r, i)
    /\ \A i \in StageIndexes(r) :
         Continued(r, i) =>
           /\ pipeline[r][i].name \in ParamStages =>
                /\ EventBefore(r, "findByIdDone", "found", i)
                /\ OwnKey(pipeline[r][i].name) \in DOMAIN context[r].props
                /\ context[r].props[OwnKey(pipeline[r][i].name)].type
                     \notin {"undefined", "null"}
           /\ (pipeline[r][i].name = "authenticate"
                 /\ url[r] \notin {"/", "/auth/login"}) =>
                /\ \/ EventBefore(r, "findUserDone", "found", i)
                   \/ EventBefore(r, "findUserDone", "null", i)
                /\ user[r].type \notin {"undefined", "null"}

\* C15: every invocation of every stage (init included) ends in exactly
\* one way: next once and no response, or one response and no next.
Nexts(r, i) == Cardinality({k \in 1..Len(log[r]) : log[r][k] = Event("next", i)})
Responds(r, i) == Cardinality({k \in 1..Len(log[r]) : log[r][k] = Event("respond", i)})

C15_ExactlyOneEnding ==
  \A r \in Reqs :
    /\ Len(res[r]) <= 1
    /\ \A i \in 0..Len(pipeline[r]) :
         /\ Nexts(r, i) + Responds(r, i) <= 1
         /\ i < idx[r] => (Nexts(r, i) = 1 /\ Responds(r, i) = 0)
         /\ i > idx[r] => (Nexts(r, i) = 0 /\ Responds(r, i) = 0)
         /\ i = idx[r] =>
              IF pc[r] = "responded"
              THEN Nexts(r, i) = 0 /\ Responds(r, i) = 1 /\ Len(res[r]) = 1
              ELSE Nexts(r, i) = 0 /\ Responds(r, i) = 0 /\ res[r] = << >>

\* init, authenticate and processArticleParam each called next once and
\* the can stage answered 403 once.
C15_Witness ==
  \E r \in Reqs :
    /\ pc[r] = "responded" /\ idx[r] = 3
    /\ pipeline[r][3].name = "can"
    /\ res[r] = <<Response(403, MsgForbidden)>>
    /\ \A i \in 0..2 : Nexts(r, i) = 1

\* C16: a can stage that starts on a request without a caller identity
\* answers 500 with the generic failure message at once: no next, no
\* 403, no use of the permission source, the registry or a predicate.
C16_Step ==
  \A r \in Reqs :
    (/\ pc[r] = "start" /\ CurStage(r).name = "can"
     /\ user[r] \in {Undefined, Null}
     /\ (pc'[r] # "start" \/ idx'[r] # idx[r]))
    => /\ pc'[r] = "responded"
       /\ idx'[r] = idx[r]
       /\ res'[r] = Append(res[r], Response(500, "Sorry :( Something bad happened."))
       /\ log'[r] = Append(log[r], Event("respond", idx[r]))
       /\ promises'[r] = promises[r]

C16_NoCallerIsServerError == [][C16_Step]_vars

\* Authentication was bypassed on "/", then can('view', 'article')
\* answered 500 without a registry lookup.
C16_Witness ==
  \E r \in Reqs : \E i \in StageIndexes(r) :
    /\ url[r] = "/" /\ user[r] = Undefined
    /\ i > 1 /\ pipeline[r][i - 1].name = "authenticate"
    /\ pipeline[r][i] = Stage("can", "view", "article")
    /\ AnsweredWith(r, i, 500, MsgFailure)
    /\ ~HasEvent(r, "registry", i) /\ ~HasEvent(r, "permissions", i)

\* C17: on a public route authenticate only calls next: req.user and
\* req.context stay as they were, no token is decoded and no user looked
\* up, whatever token the request carries.
C17_Step ==
  \A r \in Reqs :
    (/\ pc[r] = "start" /\ CurStage(r).name = "authenticate"
     /\ url[r] \in {"/", "/auth/login"}
     /\ (pc'[r] # "start" \/ idx'[r] # idx[r]))
    => /\ user'[r] = user[r]
       /\ context'[r] = context[r]
       /\ res'[r] = res[r]
       /\ pc'[r] = "start" /\ idx'[r] = idx[r] + 1
       /\ log'[r] = Append(log[r], Event("next", idx[r]))

C17_PublicRouteUntouched == [][C17_Step]_vars

\* "/auth/login" with alice's valid token: authenticate continued and no
\* caller was attached.
C17_Witness ==
  \E r \in Reqs : \E i \in StageIndexes(r) :
    /\ pipeline[r][i].name = "authenticate"
    /\ url[r] = "/auth/login" /\ token[r] = "alice"
    /\ Bypassed(r, i)
    /\ user[r] = Undefined

====
